---- MODULE Spec2Model ----
(***************************************************************************)
(* State-machine model of visactl's MainWindow.py: the widgets' values,    *)
(* the signal/slot connections made by each panel's connect(), the slots,  *)
(* and the user events Qt's event loop delivers to them one at a time.     *)
(***************************************************************************)
EXTENDS Naturals, Sequences, FiniteSets

\* ---------------------------------------------------------------- bounds
NumTexts == 1      \* distinct non-empty texts a user may type in a free-text field
NumPaths == 1      \* distinct paths a user may type or pick
NumDevices == 2    \* distinct device names the selector may be populated with

AllTexts == <<"srv", "db", "tbl">>
AllPaths == <<"/data", "/tmp", "/home">>
AllDevices == <<"GPIB0::1", "GPIB0::2", "USB0::3", "TCPIP0::4">>

Texts == {AllTexts[i] : i \in 1..NumTexts}
Paths == {AllPaths[i] : i \in 1..NumPaths}
Devices == {AllDevices[i] : i \in 1..NumDevices}

\* ---------------------------------------------------------------- widgets
SqlLines == {"line_server", "line_database", "line_table"}
LocalLines == {"line_statefile", "line_dir"}
MetadataLines == {"line_part", "line_number"}
LineEdits == SqlLines \cup LocalLines \cup MetadataLines

Buttons == {"button_statefile", "button_dir", "button_src_reload",
            "button_nextrun", "button_load", "button_start"}

\* What a user can type into a line edit.
Typeable(w) == IF w \in LocalLines THEN Paths \cup {""} ELSE Texts \cup {""}

VARIABLES
    dd_items,        \* items of VisaConnectionBox.dd_device
    dd_device,       \* currentText of VisaConnectionBox.dd_device
    checkbox_status, \* checkState of SqlConnectionBox.checkbox_status
    text,            \* text of every QLineEdit, by attribute name
    tabs,            \* TabWidget: [movable, titles]
    table,           \* StatefileTable.table: [rowCount, columnCount, headers]
    pc,              \* "idle", or the modal picker a slot is blocked in
    dialog,          \* outcome of the picker the current event opened
    event,           \* the user event being / last handled: <<widget, signal>>
    visaEmits,       \* payloads signalVisaSettingsChanged emitted for `event`
    sqlEmits,        \* payloads signalSqlSettingsChanged emitted for `event`
    localEmits       \* payloads signalLocalSettingsChanged emitted for `event`

fields == <<dd_items, dd_device, checkbox_status, text>>
emits == <<visaEmits, sqlEmits, localEmits>>
vars == <<dd_items, dd_device, checkbox_status, text, tabs, table, pc, dialog,
          event, visaEmits, sqlEmits, localEmits>>

\* ---------------------------------------------------------------- connections
\* Each connect() as the set of <<sender, signal, slot>> it registers.
\* Mutant: the slot is connected to the selector's index signal instead.
VisaConnectionBox_connect_index ==
    {<<"dd_device", "currentIndexChanged", "onVisaSettingsChanged">>}

VisaConnectionBox_connect ==
    {<<"dd_device", "currentTextChanged", "onVisaSettingsChanged">>}

SqlConnectionBox_connect ==
    {<<"checkbox_status", "stateChanged", "onSqlSettingsChanged">>,
     <<"line_server", "editingFinished", "onSqlSettingsChanged">>,
     <<"line_database", "editingFinished", "onSqlSettingsChanged">>,
     <<"line_table", "editingFinished", "onSqlSettingsChanged">>}

\* Mutant: the directory field notifies on every text change.
LocalConnectionBox_connect_textChanged ==
    {<<"button_statefile", "clicked", "onStatefileButtonClicked">>,
     <<"button_dir", "clicked", "onDirectoryButtonClicked">>,
     <<"line_dir", "textChanged", "onLocalSettingsChanged">>}

LocalConnectionBox_connect ==
    {<<"button_statefile", "clicked", "onStatefileButtonClicked">>,
     <<"button_dir", "clicked", "onDirectoryButtonClicked">>,
     <<"line_dir", "editingFinished", "onLocalSettingsChanged">>}

\* Mutant: the window wires the part-number field to the storage slot.
MainWindow_connect_metadata ==
    {<<"line_part", "editingFinished", "onSqlSettingsChanged">>}

MainWindow_connect == {}

Connections ==
    VisaConnectionBox_connect \cup SqlConnectionBox_connect
        \cup LocalConnectionBox_connect \cup MainWindow_connect

\* The slots Qt calls when widget w fires the signals sigs.
Slots(w, sigs) == {c[3] : c \in {d \in Connections : d[1] = w /\ d[2] \in sigs}}

\* ---------------------------------------------------------------- slots
\* Each slot as the sequence of payloads it emits on its panel's signal.
onVisaSettingsChanged(device) == <<device>>

\* Mutant: the database entry is read from the server field.
settings_copied ==
    [enabled |-> checkbox_status,
     server |-> text["line_server"],
     database |-> text["line_server"],
     table |-> text["line_table"]]

settings ==
    [enabled |-> checkbox_status,
     server |-> text["line_server"],
     database |-> text["line_database"],
     table |-> text["line_table"]]

onSqlSettingsChanged == <<settings>>

\* Mutant: the slot reads the state-file field.
onLocalSettingsChanged_statefile == <<text["line_statefile"]>>

onLocalSettingsChanged == <<text["line_dir"]>>

\* QFileDialog's static pickers: the chosen path, or empty when rejected.
getExistingDirectory(result, path) == IF result = "Accepted" THEN path ELSE ""

getOpenFileName(result, path) ==
    IF result = "Accepted" THEN <<path, "All Files (*)">> ELSE <<"", "">>

\* The modal picker, if any, that handling (w, sigs) blocks in.
Picker(w, sigs) ==
    IF "onDirectoryButtonClicked" \in Slots(w, sigs) THEN "getExistingDirectory"
    ELSE IF "onStatefileButtonClicked" \in Slots(w, sigs) THEN "getOpenFileName"
    ELSE "idle"

\* Mutant: the pickers are shown without blocking the main window.
AcceptsInput_nonmodal == TRUE

\* The main window takes user input only while no modal picker is open.
AcceptsInput == pc = "idle"

\* Qt delivers the signals sigs of widget w (carrying arg) to the connected
\* slots; the slots read the widgets' values as they are after the change.
Deliver(w, sigs, arg) ==
    /\ visaEmits' = IF "onVisaSettingsChanged" \in Slots(w, sigs)
                    THEN onVisaSettingsChanged(arg) ELSE <<>>
    /\ sqlEmits' = IF "onSqlSettingsChanged" \in Slots(w, sigs)
                   THEN onSqlSettingsChanged' ELSE <<>>
    /\ localEmits' = IF "onLocalSettingsChanged" \in Slots(w, sigs)
                     THEN onLocalSettingsChanged' ELSE <<>>

NoDialog == [result |-> "none", path |-> ""]

\* ---------------------------------------------------------------- construction
TabWidget_init ==
    [movable |-> FALSE, titles |-> <<"Connections", "Route", "Aquisition">>]

\* Mutant: QTableWidget's row and column counts are swapped.
StatefileTable_init_swapped ==
    [rowCount |-> 4, columnCount |-> 0, headers |-> <<>>]

StatefileTable_init ==
    [rowCount |-> 0, columnCount |-> 4,
     headers |-> <<"Description", "Units", "Scan", "Configure">>]

Init ==
    /\ dd_items = <<>>
    /\ dd_device = ""
    /\ checkbox_status = "Unchecked"
    /\ text = [w \in LineEdits |-> ""]
    /\ tabs = TabWidget_init
    /\ table = StatefileTable_init
    /\ pc = "idle"
    /\ dialog = NoDialog
    /\ event = <<"MainWindow", "__init__">>
    /\ visaEmits = <<>>
    /\ sqlEmits = <<>>
    /\ localEmits = <<>>

\* ---------------------------------------------------------------- user events
\* An external collaborator appends the next device name d to the selector; the
\* first item added to an empty selector becomes its current value.
addItem(d) ==
    /\ AcceptsInput
    /\ Len(dd_items) < NumDevices
    /\ d = AllDevices[Len(dd_items) + 1]
    /\ dd_items' = Append(dd_items, d)
    /\ dd_device' = IF dd_items = <<>> THEN d ELSE dd_device
    /\ UNCHANGED <<checkbox_status, text, tabs, table>>
    /\ pc' = "idle"
    /\ dialog' = NoDialog
    /\ event' = <<"dd_device", "addItem">>
    /\ IF dd_device' # dd_device
       THEN Deliver("dd_device", {"currentTextChanged"}, dd_device')
       ELSE Deliver("dd_device", {}, "")

\* The user picks another device in the selector.
currentTextChanged(d) ==
    /\ AcceptsInput
    /\ \E i \in 1..Len(dd_items) : dd_items[i] = d
    /\ d # dd_device
    /\ dd_device' = d
    /\ UNCHANGED <<dd_items, checkbox_status, text, tabs, table>>
    /\ pc' = Picker("dd_device", {"currentTextChanged"})
    /\ dialog' = NoDialog
    /\ event' = <<"dd_device", "currentTextChanged">>
    /\ Deliver("dd_device", {"currentTextChanged"}, d)

\* The user toggles the logging checkbox (two-state).
stateChanged ==
    /\ AcceptsInput
    /\ checkbox_status' =
           IF checkbox_status = "Unchecked" THEN "Checked" ELSE "Unchecked"
    /\ UNCHANGED <<dd_items, dd_device, text, tabs, table>>
    /\ pc' = Picker("checkbox_status", {"stateChanged"})
    /\ dialog' = NoDialog
    /\ event' = <<"checkbox_status", "stateChanged">>
    /\ Deliver("checkbox_status", {"stateChanged"}, checkbox_status')

\* The user types in line edit w, making its text t.
textEdited(w, t) ==
    /\ AcceptsInput
    /\ t # text[w]
    /\ text' = [text EXCEPT ![w] = t]
    /\ UNCHANGED <<dd_items, dd_device, checkbox_status, tabs, table>>
    /\ pc' = Picker(w, {"textEdited", "textChanged"})
    /\ dialog' = NoDialog
    /\ event' = <<w, "textEdited">>
    /\ Deliver(w, {"textEdited", "textChanged"}, t)

\* The user completes an edit in line edit w (Return, or focus leaves it).
editingFinished(w) ==
    /\ AcceptsInput
    /\ UNCHANGED <<dd_items, dd_device, checkbox_status, text, tabs, table>>
    /\ pc' = Picker(w, {"editingFinished"})
    /\ dialog' = NoDialog
    /\ event' = <<w, "editingFinished">>
    /\ Deliver(w, {"editingFinished"}, "")

\* The user clicks button b; a picker slot opens its modal dialog and blocks.
clicked(b) ==
    /\ AcceptsInput
    /\ UNCHANGED <<dd_items, dd_device, checkbox_status, text, tabs, table>>
    /\ pc' = Picker(b, {"clicked"})
    /\ dialog' = NoDialog
    /\ event' = <<b, "clicked">>
    /\ Deliver(b, {"clicked"}, "")

\* setText(t) on line edit w at the end of a picker slot.
setText(w, t) ==
    /\ text' = [text EXCEPT ![w] = t]
    /\ IF t # text[w] THEN Deliver(w, {"textChanged"}, t) ELSE Deliver(w, {}, "")

\* The directory picker is dismissed; onDirectoryButtonClicked resumes.
onDirectoryButtonClicked(result, path) ==
    /\ pc = "getExistingDirectory"
    /\ dialog' = [result |-> result, path |-> path]
    /\ LET folder == getExistingDirectory(result, path)
       IN setText("line_dir", folder)
    /\ pc' = "idle"
    /\ UNCHANGED <<dd_items, dd_device, checkbox_status, tabs, table, event>>

\* Mutant: the file picker's slot writes the directory field.
onStatefileButtonClicked_dir(result, path) ==
    /\ pc = "getOpenFileName"
    /\ dialog' = [result |-> result, path |-> path]
    /\ LET file_name == getOpenFileName(result, path)[1]
       IN setText("line_dir", file_name)
    /\ pc' = "idle"
    /\ UNCHANGED <<dd_items, dd_device, checkbox_status, tabs, table, event>>

\* The file picker is dismissed; onStatefileButtonClicked resumes.
onStatefileButtonClicked(result, path) ==
    /\ pc = "getOpenFileName"
    /\ dialog' = [result |-> result, path |-> path]
    /\ LET file_name == getOpenFileName(result, path)[1]
       IN setText("line_statefile", file_name)
    /\ pc' = "idle"
    /\ UNCHANGED <<dd_items, dd_device, checkbox_status, tabs, table, event>>

\* The user drags tab i onto position j of the tab bar.
Swap(s, i, j) == [s EXCEPT ![i] = s[j], ![j] = s[i]]

tabMoved(i, j) ==
    /\ AcceptsInput
    /\ tabs' = IF tabs.movable
               THEN [tabs EXCEPT !.titles = Swap(tabs.titles, i, j)]
               ELSE tabs
    /\ UNCHANGED <<dd_items, dd_device, checkbox_status, text, table>>
    /\ pc' = "idle"
    /\ dialog' = NoDialog
    /\ event' = <<"tabBar", "drag">>
    /\ Deliver("tabBar", {"tabMoved"}, "")

Outcomes ==
    {[result |-> "Accepted", path |-> p] : p \in Paths}
        \cup {[result |-> "Rejected", path |-> ""]}

Next ==
    \/ \E d \in Devices : addItem(d)
    \/ \E d \in Devices : currentTextChanged(d)
    \/ stateChanged
    \/ \E w \in LineEdits : \E t \in Typeable(w) : textEdited(w, t)
    \/ \E w \in LineEdits : editingFinished(w)
    \/ \E b \in Buttons : clicked(b)
    \/ \E o \in Outcomes : onDirectoryButtonClicked(o.result, o.path)
    \/ \E o \in Outcomes : onStatefileButtonClicked(o.result, o.path)
    \/ \E i \in 1..3 : \E j \in 1..3 : i # j /\ tabMoved(i, j)

Spec == Init /\ [][Next]_vars

\* ---------------------------------------------------------------- properties
NoEmits == visaEmits = <<>> /\ sqlEmits = <<>> /\ localEmits = <<>>

\* Every line edit other than those in ws keeps its text over the step.
OthersKeepText(ws) == \A w \in LineEdits \ ws : text'[w] = text[w]

\* C1: a commit in the storage panel (checkbox toggle, or edit completion in
\* server, database or table) emits exactly one storage-settings notification,
\* whose payload holds the current value of all four fields.
C1_SqlCommitEmitsFullRecord ==
    (event \in ({<<"checkbox_status", "stateChanged">>}
                    \cup {<<w, "editingFinished">> : w \in SqlLines}))
        => sqlEmits = <<[enabled |-> checkbox_status,
                         server |-> text["line_server"],
                         database |-> text["line_database"],
                         table |-> text["line_table"]]>>

C1_Witness ==
    /\ event = <<"line_table", "editingFinished">>
    /\ checkbox_status = "Checked"
    /\ text["line_server"] # ""
    /\ text["line_database"] = ""
    /\ text["line_table"] # ""
    /\ Len(sqlEmits) = 1

\* C2: cancelling a picker leaves every field, in particular the picker's own
\* field, at its previous text.
C2_CancelKeepsText ==
    [][(pc # "idle" /\ dialog'.result = "Rejected") => text' = text]_vars

\* C3: nothing is emitted on construction, and every step that changes the
\* selector's current value to V emits exactly one device-selection
\* notification carrying V (and no step emits one otherwise).
C3_DeviceChangeEmitsOnce ==
    /\ visaEmits = <<>>
    /\ [][visaEmits' = IF dd_device' # dd_device THEN <<dd_device'>> ELSE <<>>]_vars

C3_Witness ==
    /\ event = <<"dd_device", "currentTextChanged">>
    /\ dd_device = AllDevices[2]
    /\ visaEmits = <<AllDevices[2]>>

\* C4: completing an edit in the fallback-directory field emits exactly one
\* path-change notification carrying the field's current text.
C4_DirEditEmitsText ==
    event = <<"line_dir", "editingFinished">> => localEmits = <<text["line_dir"]>>

C4_Witness ==
    /\ event = <<"line_dir", "editingFinished">>
    /\ text["line_dir"] \in Paths
    /\ localEmits = <<text["line_dir"]>>

\* C5: a path-change notification comes only from edit completion in the
\* fallback-directory field; the Browse buttons and their pickers emit none,
\* and the state-file field and its button emit nothing at all.
C5_OnlyDirEditEmitsPath ==
    /\ localEmits # <<>> => event = <<"line_dir", "editingFinished">>
    /\ event[1] \in {"button_dir", "button_statefile"} => localEmits = <<>>
    /\ event[1] \in {"line_statefile", "button_statefile"} => NoEmits

C5_Witness ==
    /\ event = <<"button_dir", "clicked">>
    /\ pc = "idle"
    /\ dialog.result = "Accepted"
    /\ text["line_dir"] = dialog.path
    /\ localEmits = <<>>

\* C6: confirming path P in the directory picker sets the fallback-directory
\* field to P, confirming it in the file picker sets the state-file field to P,
\* and in both cases every other field keeps its value.
C6_PickedPathWritten ==
    [][(pc # "idle" /\ dialog'.result = "Accepted") =>
          /\ text' = [text EXCEPT ![IF pc = "getExistingDirectory"
                                    THEN "line_dir" ELSE "line_statefile"]
                                      = dialog'.path]
          /\ UNCHANGED <<dd_items, dd_device, checkbox_status>>]_vars

C6_Witness ==
    /\ event = <<"button_statefile", "clicked">>
    /\ dialog.result = "Accepted"
    /\ text["line_statefile"] = dialog.path
    /\ text["line_dir"] = ""

\* C7: the tab container always has the three tabs Connections, Route,
\* Acquisition in that order, and is not movable.
C7_TabsFixed ==
    /\ tabs.titles = <<"Connections", "Route", "Acquisition">>
    /\ ~tabs.movable

\* C8: the route table always has the four columns Description, Units, Scan,
\* Configure and no rows.
C8_RouteTableShape ==
    /\ table.columnCount = 4
    /\ table.headers = <<"Description", "Units", "Scan", "Configure">>
    /\ Len(table.headers) = table.columnCount
    /\ table.rowCount = 0

C8_Witness ==
    /\ event = <<"button_src_reload", "clicked">>
    /\ text["line_statefile"] # ""
    /\ table.rowCount = 0

\* C9: typing or completing an edit in a metadata field emits no notification
\* and changes nothing but that field.
C9_MetadataSilent ==
    [][event'[1] \in MetadataLines =>
          /\ visaEmits' = <<>> /\ sqlEmits' = <<>> /\ localEmits' = <<>>
          /\ OthersKeepText({event'[1]})
          /\ UNCHANGED <<dd_items, dd_device, checkbox_status, tabs, table>>]_vars

C9_Witness ==
    /\ event = <<"line_part", "editingFinished">>
    /\ text["line_part"] # ""
    /\ text["line_server"] # ""
    /\ NoEmits

\* C10: while a picker is open nothing has been emitted for the click that
\* opened it, and the only step taken is the picker's dismissal: the event
\* being handled stays the same, no notification is emitted, and no field
\* other than the picker's own changes.
C10_PickerBlocksEvents ==
    /\ [](pc # "idle" => NoEmits /\ event[1] \in {"button_dir", "button_statefile"})
    /\ [][pc # "idle" =>
            /\ pc' = "idle"
            /\ dialog'.result \in {"Accepted", "Rejected"}
            /\ event' = event
            /\ visaEmits' = <<>> /\ sqlEmits' = <<>> /\ localEmits' = <<>>
            /\ OthersKeepText({IF pc = "getExistingDirectory"
                               THEN "line_dir" ELSE "line_statefile"})
            /\ UNCHANGED <<dd_items, dd_device, checkbox_status, tabs, table>>]_vars

C10_Witness ==
    /\ pc = "getExistingDirectory"
    /\ event = <<"button_dir", "clicked">>
    /\ text["line_server"] # ""
    /\ dd_device # ""

====
